---- MODULE Spec2Model ----
(***************************************************************************)
(* HR Agent API: the chat/session HTTP handlers of src/api.py over the     *)
(* in-memory registry (sessions, sdk_session_map), and the agent client    *)
(* adapter get_claude_agent_response of src/hr_agent_claude_sdk.py.        *)
(*                                                                         *)
(* The server is a single asyncio event loop: a handler runs atomically    *)
(* from one suspension point to the next.  The only suspension of chat()   *)
(* that other handlers can interleave with is the agent exchange, so a     *)
(* chat request is two steps, ChatStart and ChatResume; get, delete and    *)
(* list never suspend and are one step each.                               *)
(***************************************************************************)
EXTENDS Integers, Sequences, FiniteSets, TLC

VARIABLES
    sessions,         \* api.py:68  api session id -> list of {role, content}
    sdk_session_map,  \* api.py:70  api session id -> SDK session id
    nuuid,            \* number of uuid.uuid4() values drawn so far
    chats,            \* the chat requests received so far, each with its locals
    last,             \* the response to the latest get/delete/list request
    deleted,          \* ids whose DELETE was answered 200 so far
    call              \* direct calls of the adapter (SpecAdapter) or of a tool (SpecTools)

vars == <<sessions, sdk_session_map, nuuid, chats, last, deleted, call>>

(***************************************************************************)
(* Bounds and input alphabets                                              *)
(***************************************************************************)
MaxChats == 2
MaxStreamLen == 2

\* Python's None (a value no session id or text is equal to).
None == "<None>"

\* Session ids a client can make up, the empty string among the values sent.
ClientIds == {"a"}
Messages == {"m1", "m2"}

\* The values str(uuid.uuid4()) returns, in the order they are drawn.
UuidPool == <<"u1", "u2", "u3", "u4", "u5", "u6", "u7", "u8", "u9", "u10", "u11", "u12">>
Uuid(n) == UuidPool[n]

\* Session ids the agent runtime reports in its terminal result message.
RuntimeSessionIds == {"r1", "a"}

EmptyDict == << >>

(***************************************************************************)
(* Runtime message stream (claude_agent_sdk message types)                 *)
(***************************************************************************)
TextBlock(t) == [type |-> "text", text |-> t]
ToolUseBlock == [type |-> "tool_use", text |-> "call"]
ToolResultBlock == [type |-> "tool_result", text |-> "res"]
AssistantMessage(blocks) == [type |-> "assistant", content |-> blocks, session_id |-> None]
UserMessage(blocks) == [type |-> "user", content |-> blocks, session_id |-> None]
ResultMessage(sid) == [type |-> "result", content |-> << >>, session_id |-> sid]

\* The messages a stream carries before its end.
BodyMessages ==
    { AssistantMessage(<<TextBlock("x")>>),
      AssistantMessage(<<ToolUseBlock, TextBlock("y")>>),
      AssistantMessage(<<ToolUseBlock>>),
      UserMessage(<<ToolResultBlock>>) }

RECURSIVE SeqsUpTo(_, _)
SeqsUpTo(S, n) ==
    IF n = 0 THEN { << >> }
    ELSE LET shorter == SeqsUpTo(S, n - 1)
         IN  shorter \cup { Append(s, x) : s \in { t \in shorter : Len(t) = n - 1 }, x \in S }

\* A stream ends with the terminal result message, or the exchange raises
\* after the messages delivered so far (error is then str(e)).
Streams ==
    { [msgs |-> Append(b, ResultMessage(rid)), error |-> None] :
          b \in SeqsUpTo(BodyMessages, MaxStreamLen), rid \in RuntimeSessionIds }
    \cup
    { [msgs |-> b, error |-> "boom"] : b \in SeqsUpTo(BodyMessages, MaxStreamLen) }

\* Tracing: whether Langfuse is configured, and which client operations raise.
TraceOps == {"propagate", "span", "generation", "flush"}
Traces ==
    { [enabled |-> FALSE, faults |-> {}] }
    \cup { [enabled |-> TRUE, faults |-> F] : F \in SUBSET TraceOps }
TraceError == "trace failure"

(***************************************************************************)
(* Agent client adapter: get_claude_agent_response                         *)
(***************************************************************************)
\* Python truthiness of an Optional[str].
Falsy(s) == s = None \/ s = ""

\* Mutant: the flag follows the truthiness test of line 185.
IsNewSessionFalsy(session_id) == session_id = None \/ session_id = ""

\* hr_agent_claude_sdk.py:184
IsNewSession(session_id) == session_id = None

\* hr_agent_claude_sdk.py:185
ActualSessionId(session_id, uuid) == IF Falsy(session_id) THEN uuid ELSE session_id

\* Mutant: the text of every block is taken, whatever its type.
RECURSIVE BlocksTextAnyBlock(_)
BlocksTextAnyBlock(blocks) ==
    IF blocks = << >> THEN ""
    ELSE Head(blocks).text \o BlocksTextAnyBlock(Tail(blocks))

\* Traced branch, lines 244-267: a text block is added to response_text, a
\* tool-use block is logged (tool_calls, a span) and adds nothing.
RECURSIVE TracedBlocksText(_)
TracedBlocksText(blocks) ==
    IF blocks = << >> THEN ""
    ELSE (IF Head(blocks).type = "text" THEN Head(blocks).text
          ELSE IF Head(blocks).type = "tool_use" THEN ""
          ELSE "")
         \o TracedBlocksText(Tail(blocks))

\* Traced branch, lines 234-310: response_text after the loop; user messages
\* (tool results) and the result message (generation) are only logged.
RECURSIVE TracedResponseText(_)
TracedResponseText(msgs) ==
    IF msgs = << >> THEN ""
    ELSE (IF Head(msgs).type = "assistant" THEN TracedBlocksText(Head(msgs).content)
          ELSE IF Head(msgs).type = "user" THEN ""
          ELSE IF Head(msgs).type = "result" THEN ""
          ELSE "")
         \o TracedResponseText(Tail(msgs))

\* Untraced branch, lines 359-362: the text blocks of one assistant message,
\* concatenated in order.
RECURSIVE BlocksText(_)
BlocksText(blocks) ==
    IF blocks = << >> THEN ""
    ELSE (IF Head(blocks).type = "text" THEN Head(blocks).text ELSE "")
         \o BlocksText(Tail(blocks))

\* response_text after the receive_response loop.
RECURSIVE ResponseText(_)
ResponseText(msgs) ==
    IF msgs = << >> THEN ""
    ELSE (IF Head(msgs).type = "assistant" THEN BlocksText(Head(msgs).content) ELSE "")
         \o ResponseText(Tail(msgs))

\* Traced branch, lines 332-336.
TracedResult(session_id, uuid, stream) ==
    [ok |-> TRUE,
     session_id |-> ActualSessionId(session_id, uuid),
     content |-> TracedResponseText(stream.msgs),
     is_new_session |-> IsNewSession(session_id),
     error |-> None]

\* Untraced branch, lines 364-368.
AdapterResult(session_id, uuid, stream) ==
    [ok |-> TRUE,
     session_id |-> ActualSessionId(session_id, uuid),
     content |-> ResponseText(stream.msgs),
     is_new_session |-> IsNewSession(session_id),
     error |-> None]

\* Mutant: the failure is swallowed and returned as the response text.
AdapterErrorAsText(e) ==
    [ok |-> TRUE, session_id |-> "err", content |-> e, is_new_session |-> FALSE, error |-> None]

AdapterError(e) ==
    [ok |-> FALSE, session_id |-> None, content |-> "", is_new_session |-> FALSE, error |-> e]

\* Mutant: with tracing on, a failure of the exchange is not raised.
TracedBodyErrorSwallowed(stream, faults) ==
    IF faults # {} THEN TraceError ELSE None

\* Traced branch, lines 209-228, the segment before the first suspension:
\* propagate_attributes, then the spans hr-agent-query and user-message.
\* The error it raises, None when it reaches the connect of line 231.
TracedPrologueError(faults) ==
    IF "propagate" \in faults THEN TraceError
    ELSE IF "span" \in faults THEN TraceError
    ELSE None

\* Lines 248-267 and 272-290: a span is opened for every tool-use block of
\* an assistant message and for every tool-result block of a user message.
SpanCalled(msg) ==
    \/ /\ msg.type = "assistant"
       /\ \E j \in 1..Len(msg.content) : msg.content[j].type = "tool_use"
    \/ /\ msg.type = "user"
       /\ \E j \in 1..Len(msg.content) : msg.content[j].type = "tool_result"

\* Lines 293-310: a generation is opened for the result message.
GenerationCalled(msg) == msg.type = "result"

\* Traced branch, lines 231-330, the segment after the first suspension:
\* the error it raises, None when it returns. A tracing operation fails while
\* the message it is called for is handled, before the exchange delivers
\* anything further; the span assistant-response (313) and the flush (330)
\* are reached only when the exchange ended.
TracedBodyError(stream, faults) ==
    IF \E i \in 1..Len(stream.msgs) :
           \/ SpanCalled(stream.msgs[i]) /\ "span" \in faults
           \/ GenerationCalled(stream.msgs[i]) /\ "generation" \in faults
    THEN TraceError
    ELSE IF stream.error # None THEN stream.error
    ELSE IF "span" \in faults THEN TraceError
    ELSE IF "flush" \in faults THEN TraceError
    ELSE None

\* The except handler of the traced branch: the error span is guarded, the
\* flush is not, then the caught error is re-raised.
TracedHandlerError(e, faults) == IF "flush" \in faults THEN TraceError ELSE e

\* A traced call ends in its first step, the exchange never started, when
\* the segment before the first suspension raises.
EndsBeforeSuspension(trace) ==
    trace.enabled /\ TracedPrologueError(trace.faults) # None

\* What such a call raises (lines 338-350).
RaisedBeforeSuspension(trace) ==
    AdapterError(TracedHandlerError(TracedPrologueError(trace.faults), trace.faults))

\* The whole call, run on a stream under a tracing outcome in force from its
\* first line to its last.
GetClaudeAgentResponse(message, session_id, uuid, stream, trace) ==
    IF trace.enabled
    THEN IF EndsBeforeSuspension(trace) THEN RaisedBeforeSuspension(trace)
         ELSE LET e == TracedBodyError(stream, trace.faults)
              IN  IF e = None THEN TracedResult(session_id, uuid, stream)
                  ELSE AdapterError(TracedHandlerError(e, trace.faults))
    ELSE IF stream.error # None THEN AdapterError(stream.error)
         ELSE AdapterResult(session_id, uuid, stream)

(***************************************************************************)
(* Lookup tools (hr_agent_claude_sdk.py:57-134; src/tools.py holds the     *)
(* same three functions, line for line)                                    *)
(***************************************************************************)
\* Characters are code points, texts are sequences of them. A TLA+ string
\* holds printable ASCII but the grave accent, and \n, \t and \r; any other
\* character is written <U+xxxx> in it.
Ascii ==
    <<" ", "!", "\"", "#", "$", "%", "&", "'", "(", ")", "*", "+",
      ",", "-", ".", "/", "0", "1", "2", "3", "4", "5", "6", "7",
      "8", "9", ":", ";", "<", "=", ">", "?", "@", "A", "B", "C",
      "D", "E", "F", "G", "H", "I", "J", "K", "L", "M", "N", "O",
      "P", "Q", "R", "S", "T", "U", "V", "W", "X", "Y", "Z", "[",
      "\\", "]", "^", "_", "<U+0060>", "a", "b", "c", "d", "e", "f", "g",
      "h", "i", "j", "k", "l", "m", "n", "o", "p", "q", "r", "s",
      "t", "u", "v", "w", "x", "y", "z", "{", "|", "}", "~">>
Ord(ch) == 31 + (CHOOSE i \in 1..Len(Ascii) : Ascii[i] = ch)
Chr(c) == Ascii[c - 31]

HexDigits == <<"0", "1", "2", "3", "4", "5", "6", "7", "8", "9", "a", "b", "c", "d", "e", "f">>
RECURSIVE Hex(_, _)
Hex(n, width) ==
    IF width = 0 THEN "" ELSE Hex(n \div 16, width - 1) \o HexDigits[(n % 16) + 1]

\* The characters of the date texts the tools are run on.
Chars ==
    ("2025-01-05" :> <<50, 48, 50, 53, 45, 48, 49, 45, 48, 53>>) @@
    ("2025-12-31" :> <<50, 48, 50, 53, 45, 49, 50, 45, 51, 49>>) @@
    ("2024-02-29" :> <<50, 48, 50, 52, 45, 48, 50, 45, 50, 57>>) @@
    ("2025-02-29" :> <<50, 48, 50, 53, 45, 48, 50, 45, 50, 57>>) @@
    ("2025-02-30" :> <<50, 48, 50, 53, 45, 48, 50, 45, 51, 48>>) @@
    ("2025-13-01" :> <<50, 48, 50, 53, 45, 49, 51, 45, 48, 49>>) @@
    ("2025-00-10" :> <<50, 48, 50, 53, 45, 48, 48, 45, 49, 48>>) @@
    ("0000-01-01" :> <<48, 48, 48, 48, 45, 48, 49, 45, 48, 49>>) @@
    ("2025-1-5" :> <<50, 48, 50, 53, 45, 49, 45, 53>>) @@
    ("2025-01- 5" :> <<50, 48, 50, 53, 45, 48, 49, 45, 32, 53>>) @@
    ("20250105" :> <<50, 48, 50, 53, 48, 49, 48, 53>>) @@
    ("2025-01-05x" :> <<50, 48, 50, 53, 45, 48, 49, 45, 48, 53, 120>>) @@
    ("2025/01/05" :> <<50, 48, 50, 53, 47, 48, 49, 47, 48, 53>>) @@
    ("abc" :> <<97, 98, 99>>) @@
    ("<U+ff12><U+ff10><U+ff12><U+ff15>-01-05" :> <<65298, 65296, 65298, 65301, 45, 48, 49, 45, 48, 53>>) @@
    ("2024-02-2<U+0669>" :> <<50, 48, 50, 52, 45, 48, 50, 45, 50, 1641>>) @@
    ("2025-02-2<U+0669>" :> <<50, 48, 50, 53, 45, 48, 50, 45, 50, 1641>>) @@
    ("2025-0<U+0665>-01" :> <<50, 48, 50, 53, 45, 48, 1637, 45, 48, 49>>) @@
    ("2025-01-<U+0665>" :> <<50, 48, 50, 53, 45, 48, 49, 45, 1637>>) @@
    ("" :> <<>>)

DateTexts == DOMAIN Chars
AssignmentIds == {"15338303", "15778303", "15000000", ""}
Usernames == {"nwaters", "johndoe", "alice", ""}

\* The argument dicts the runtime hands to a tool: string values under the
\* declared keys, any key possibly absent.
ArgDicts(keys, values) ==
    UNION { [K -> values] : K \in SUBSET keys }

\* args.get(key, default)
ArgsGet(args, key, default) == IF key \in DOMAIN args THEN args[key] ELSE default

\* The classes [0-9], [1-9], [0-2], [0-1], [1-2] of the ASCII digits.
InRange(c, lo, hi) == c >= Ord("0") + lo /\ c <= Ord("0") + hi

\* The zero of every run of ten Unicode decimal digits (general category
\* Nd, Unicode 14.0.0): \d of a str pattern matches them all, and int()
\* converts them.
DecimalZeros ==
    { 48, 1632, 1776, 1984, 2406, 2534, 2662, 2790, 2918, 3046,
      3174, 3302, 3430, 3558, 3664, 3792, 3872, 4160, 4240, 6112,
      6160, 6470, 6608, 6784, 6800, 6992, 7088, 7232, 7248, 42528,
      43216, 43264, 43472, 43504, 43600, 44016, 65296, 66720, 68912, 69734,
      69872, 69942, 70096, 70384, 70736, 70864, 71248, 71360, 71472, 71904,
      72016, 72784, 73040, 73120, 92768, 92864, 93008, 120782, 120792, 120802,
      120812, 120822, 123200, 123632, 125264, 130032 }

IsDigit(c) == \E z \in DecimalZeros : c >= z /\ c <= z + 9
DigitValue(c) == c - (CHOOSE z \in DecimalZeros : c >= z /\ c <= z + 9)

RECURSIVE Number(_)
Number(cs) ==
    IF cs = << >> THEN 0
    ELSE 10 * Number(SubSeq(cs, 1, Len(cs) - 1)) + DigitValue(cs[Len(cs)])

\* The directives of "%Y-%m-%d" as datetime.strptime matches them:
\* %Y \d\d\d\d; %m 1[0-2] | 0[1-9] | [1-9]; %d 3[01] | [12]\d | 0[1-9] |
\* [1-9] | space [1-9].
MatchesYear(cs) == Len(cs) = 4 /\ \A i \in 1..4 : IsDigit(cs[i])
MatchesMonth(cs) ==
    \/ Len(cs) = 2 /\ cs[1] = Ord("1") /\ InRange(cs[2], 0, 2)
    \/ Len(cs) = 2 /\ cs[1] = Ord("0") /\ InRange(cs[2], 1, 9)
    \/ Len(cs) = 1 /\ InRange(cs[1], 1, 9)
MatchesDay(cs) ==
    \/ Len(cs) = 2 /\ cs[1] = Ord("3") /\ InRange(cs[2], 0, 1)
    \/ Len(cs) = 2 /\ InRange(cs[1], 1, 2) /\ IsDigit(cs[2])
    \/ Len(cs) = 2 /\ cs[1] \in {Ord("0"), Ord(" ")} /\ InRange(cs[2], 1, 9)
    \/ Len(cs) = 1 /\ InRange(cs[1], 1, 9)

IsLeapYear(y) == y % 4 = 0 /\ (y % 100 # 0 \/ y % 400 = 0)
DaysInMonth(y, m) ==
    IF m = 2 THEN (IF IsLeapYear(y) THEN 29 ELSE 28)
    ELSE IF m \in {4, 6, 9, 11} THEN 30 ELSE 31

\* datetime(year, month, day) accepts the parsed fields.
IsCalendarDate(y, m, d) == y >= 1 /\ m \in 1..12 /\ d \in 1..DaysInMonth(y, m)

\* The digits of a matched day field (its leading space dropped).
DayDigits(cs) == IF cs[1] = Ord(" ") THEN Tail(cs) ELSE cs

\* datetime.strptime(date_text, "%Y-%m-%d") returns (no ValueError): the
\* whole text is year "-" month "-" day, and the fields are a calendar date.
StrptimeAccepts(cs) ==
    /\ Len(cs) >= 8
    /\ MatchesYear(SubSeq(cs, 1, 4))
    /\ cs[5] = Ord("-")
    /\ \E p \in 7..8 :
          /\ p < Len(cs)
          /\ cs[p] = Ord("-")
          /\ MatchesMonth(SubSeq(cs, 6, p - 1))
          /\ MatchesDay(SubSeq(cs, p + 1, Len(cs)))
          /\ IsCalendarDate(Number(SubSeq(cs, 1, 4)),
                            Number(SubSeq(cs, 6, p - 1)),
                            Number(DayDigits(SubSeq(cs, p + 1, Len(cs)))))

\* hr_agent_claude_sdk.py:57-63
ValidateDatetime(date_text) == StrptimeAccepts(Chars[date_text])

\* json.dumps of a list of strings.
RECURSIVE JsonItems(_)
JsonItems(items) ==
    IF items = << >> THEN ""
    ELSE IF Len(items) = 1 THEN "\"" \o items[1] \o "\""
    ELSE "\"" \o items[1] \o "\", " \o JsonItems(Tail(items))
JsonDumps(items) == "[" \o JsonItems(items) \o "]"

TextContent(text) == <<[type |-> "text", text |-> text]>>

\* Mutant: the two usernames' ids are exchanged.
AssignmentIdOfSwapped(username) ==
    IF username = "nwaters" THEN "15338303"
    ELSE IF username = "johndoe" THEN "15778303"
    ELSE "not found"

\* hr_agent_claude_sdk.py:73-78
AssignmentIdOf(username) ==
    IF username = "nwaters" THEN "15778303"
    ELSE IF username = "johndoe" THEN "15338303"
    ELSE "not found"

\* hr_agent_claude_sdk.py:68-82
GetAssignmentIdHrUsecase(args) ==
    [content |-> TextContent(AssignmentIdOf(ArgsGet(args, "username", "")))]

\* Mutant: the two assignment ids' dates are exchanged.
TimeoffDatesSwapped(assignment_id) ==
    IF assignment_id = "15338303" THEN <<"20250105">>
    ELSE IF assignment_id = "15778303" THEN <<"20250411", "20250311", "20250101">>
    ELSE << >>

\* hr_agent_claude_sdk.py:114-119
TimeoffDates(assignment_id) ==
    IF assignment_id = "15338303" THEN <<"20250411", "20250311", "20250101">>
    ELSE IF assignment_id = "15778303" THEN <<"20250105">>
    ELSE << >>

IncorrectDateFormat(value) ==
    [content |-> TextContent("Incorrect date format " \o value \o ", should be YYYY-MM-DD"),
     is_error |-> TRUE]

\* hr_agent_claude_sdk.py:85-123
GetTimeoffScheduleHrUsecase(args) ==
    LET assignment_id == ArgsGet(args, "assignment_id", "")
        start_date == ArgsGet(args, "start_date", "")
        end_date == ArgsGet(args, "end_date", "")
    IN  IF ~ValidateDatetime(start_date) THEN IncorrectDateFormat(start_date)
        ELSE IF ~ValidateDatetime(end_date) THEN IncorrectDateFormat(end_date)
        ELSE [content |-> TextContent(JsonDumps(TimeoffDates(assignment_id)))]

(***************************************************************************)
(* Session registry primitives used by the handlers                        *)
(***************************************************************************)
Entry(role, content) == [role |-> role, content |-> content]

\* Mutant: the history is reset on every request, not only created when absent.
GetOrCreateReset(s, id) == (id :> << >>) @@ s

\* api.py:153-154
GetOrCreate(s, id) == IF id \in DOMAIN s THEN s ELSE (id :> << >>) @@ s

\* sessions[id].append(entry); the caller handles KeyError.
AppendMessage(s, id, entry) == [s EXCEPT ![id] = Append(@, entry)]

\* Mutant: the reply is appended with setdefault, which creates the history.
AppendResultSetDefault(s, id, entry) ==
    [raised |-> FALSE, sessions |-> AppendMessage(GetOrCreate(s, id), id, entry)]

\* sessions[id].append(entry) as chat() runs it after the exchange: a
\* KeyError when the conversation is gone, which leaves the registry as is.
AppendResult(s, id, entry) ==
    IF id \in DOMAIN s
    THEN [raised |-> FALSE, sessions |-> AppendMessage(s, id, entry)]
    ELSE [raised |-> TRUE, sessions |-> s]

\* Mutant: the value is recorded with setdefault, so a recorded one is kept.
SetItemKeep(d, k, v) == IF k \in DOMAIN d THEN d ELSE (k :> v) @@ d

\* d[k] = v
SetItem(d, k, v) == (k :> v) @@ d

\* Mutant: the dict is cleared.
DelItemClear(d, k) == << >>

\* del d[k]
DelItem(d, k) == [x \in (DOMAIN d) \ {k} |-> d[x]]

\* d.get(k)
DictGet(d, k) == IF k \in DOMAIN d THEN d[k] ELSE None

(***************************************************************************)
(* Initial state                                                           *)
(***************************************************************************)
NoCall == [pc |-> "idle"]
NoResponse == [op |-> "none"]

Init ==
    /\ sessions = EmptyDict
    /\ sdk_session_map = EmptyDict
    /\ nuuid = 0
    /\ chats = << >>
    /\ last = NoResponse
    /\ deleted = {}
    /\ call = NoCall

(***************************************************************************)
(* POST /chat                                                              *)
(***************************************************************************)
\* Ids a client has been shown: the ones it makes up, the api session ids
\* of the requests received (GET /sessions lists them) and the session ids
\* returned in chat responses.
Visible ==
    ClientIds
    \cup { chats[r].api_session_id : r \in 1..Len(chats) }
    \cup { chats[r].response.session_id :
               r \in { q \in 1..Len(chats) : chats[q].response.status = 200 } }

\* Mutant: the api session id is always generated.
ApiSessionIdAlwaysNew(session_id, uuid) == uuid

\* api.py:151  request.session_id or str(uuid.uuid4())
ApiSessionId(session_id, uuid) == IF Falsy(session_id) THEN uuid ELSE session_id

\* The uuid4 values one chat request draws: api.py:151, then
\* hr_agent_claude_sdk.py:185, each only when the session id is falsy.
UuidsDrawn(session_id) == IF Falsy(session_id) THEN 2 ELSE 0

\* api.py:148, 167: the session id handed to the adapter is the request's;
\* sdk_session_map is not read.
SdkSessionId(session_id) == session_id

ChatResponse(result) ==
    [status |-> 200,
     session_id |-> result.session_id,
     content |-> result.content,
     is_new_session |-> result.is_new_session]

\* The characters of the session ids: the ids of the served requests, and
\* ids holding a quote, a backslash, a control character or a character
\* outside ASCII.
IdChars ==
    ("a" :> <<97>>) @@
    ("u1" :> <<117, 49>>) @@
    ("u2" :> <<117, 50>>) @@
    ("u3" :> <<117, 51>>) @@
    ("u4" :> <<117, 52>>) @@
    ("u5" :> <<117, 53>>) @@
    ("u6" :> <<117, 54>>) @@
    ("u7" :> <<117, 55>>) @@
    ("u8" :> <<117, 56>>) @@
    ("u9" :> <<117, 57>>) @@
    ("u10" :> <<117, 49, 48>>) @@
    ("u11" :> <<117, 49, 49>>) @@
    ("u12" :> <<117, 49, 50>>) @@
    ("a'b" :> <<97, 39, 98>>) @@
    ("it's" :> <<105, 116, 39, 115>>) @@
    ("a\"b" :> <<97, 34, 98>>) @@
    ("a\"'b" :> <<97, 34, 39, 98>>) @@
    ("a\\b" :> <<97, 92, 98>>) @@
    ("a\nb" :> <<97, 10, 98>>) @@
    ("a\tb" :> <<97, 9, 98>>) @@
    ("a\rb" :> <<97, 13, 98>>) @@
    ("a<U+000c>b" :> <<97, 12, 98>>) @@
    ("a<U+007f>b" :> <<97, 127, 98>>) @@
    ("a<U+0000>b" :> <<97, 0, 98>>) @@
    ("a<U+00a0>b" :> <<97, 160, 98>>) @@
    ("a<U+00e9>b" :> <<97, 233, 98>>) @@
    ("a<U+2028>b" :> <<97, 8232, 98>>) @@
    ("a<U+1f600>b" :> <<97, 128512, 98>>) @@
    ("a<U+e0001>b" :> <<97, 917505, 98>>)

\* The runs of code points from 128 up that str.isprintable() rejects
\* (Unicode 14.0.0: categories Cc, Cf, Cs, Co, Cn, Zl, Zp, Zs).
NonPrintableRanges ==
    { <<128, 160>>, <<173, 173>>, <<888, 889>>, <<896, 899>>, <<907, 907>>,
      <<909, 909>>, <<930, 930>>, <<1328, 1328>>, <<1367, 1368>>, <<1419, 1420>>,
      <<1424, 1424>>, <<1480, 1487>>, <<1515, 1518>>, <<1525, 1541>>, <<1564, 1564>>,
      <<1757, 1757>>, <<1806, 1807>>, <<1867, 1868>>, <<1970, 1983>>, <<2043, 2044>>,
      <<2094, 2095>>, <<2111, 2111>>, <<2140, 2141>>, <<2143, 2143>>, <<2155, 2159>>,
      <<2191, 2199>>, <<2274, 2274>>, <<2436, 2436>>, <<2445, 2446>>, <<2449, 2450>>,
      <<2473, 2473>>, <<2481, 2481>>, <<2483, 2485>>, <<2490, 2491>>, <<2501, 2502>>,
      <<2505, 2506>>, <<2511, 2518>>, <<2520, 2523>>, <<2526, 2526>>, <<2532, 2533>>,
      <<2559, 2560>>, <<2564, 2564>>, <<2571, 2574>>, <<2577, 2578>>, <<2601, 2601>>,
      <<2609, 2609>>, <<2612, 2612>>, <<2615, 2615>>, <<2618, 2619>>, <<2621, 2621>>,
      <<2627, 2630>>, <<2633, 2634>>, <<2638, 2640>>, <<2642, 2648>>, <<2653, 2653>>,
      <<2655, 2661>>, <<2679, 2688>>, <<2692, 2692>>, <<2702, 2702>>, <<2706, 2706>>,
      <<2729, 2729>>, <<2737, 2737>>, <<2740, 2740>>, <<2746, 2747>>, <<2758, 2758>>,
      <<2762, 2762>>, <<2766, 2767>>, <<2769, 2783>>, <<2788, 2789>>, <<2802, 2808>>,
      <<2816, 2816>>, <<2820, 2820>>, <<2829, 2830>>, <<2833, 2834>>, <<2857, 2857>>,
      <<2865, 2865>>, <<2868, 2868>>, <<2874, 2875>>, <<2885, 2886>>, <<2889, 2890>>,
      <<2894, 2900>>, <<2904, 2907>>, <<2910, 2910>>, <<2916, 2917>>, <<2936, 2945>>,
      <<2948, 2948>>, <<2955, 2957>>, <<2961, 2961>>, <<2966, 2968>>, <<2971, 2971>>,
      <<2973, 2973>>, <<2976, 2978>>, <<2981, 2983>>, <<2987, 2989>>, <<3002, 3005>>,
      <<3011, 3013>>, <<3017, 3017>>, <<3022, 3023>>, <<3025, 3030>>, <<3032, 3045>>,
      <<3067, 3071>>, <<3085, 3085>>, <<3089, 3089>>, <<3113, 3113>>, <<3130, 3131>>,
      <<3141, 3141>>, <<3145, 3145>>, <<3150, 3156>>, <<3159, 3159>>, <<3163, 3164>>,
      <<3166, 3167>>, <<3172, 3173>>, <<3184, 3190>>, <<3213, 3213>>, <<3217, 3217>>,
      <<3241, 3241>>, <<3252, 3252>>, <<3258, 3259>>, <<3269, 3269>>, <<3273, 3273>>,
      <<3278, 3284>>, <<3287, 3292>>, <<3295, 3295>>, <<3300, 3301>>, <<3312, 3312>>,
      <<3315, 3327>>, <<3341, 3341>>, <<3345, 3345>>, <<3397, 3397>>, <<3401, 3401>>,
      <<3408, 3411>>, <<3428, 3429>>, <<3456, 3456>>, <<3460, 3460>>, <<3479, 3481>>,
      <<3506, 3506>>, <<3516, 3516>>, <<3518, 3519>>, <<3527, 3529>>, <<3531, 3534>>,
      <<3541, 3541>>, <<3543, 3543>>, <<3552, 3557>>, <<3568, 3569>>, <<3573, 3584>>,
      <<3643, 3646>>, <<3676, 3712>>, <<3715, 3715>>, <<3717, 3717>>, <<3723, 3723>>,
      <<3748, 3748>>, <<3750, 3750>>, <<3774, 3775>>, <<3781, 3781>>, <<3783, 3783>>,
      <<3790, 3791>>, <<3802, 3803>>, <<3808, 3839>>, <<3912, 3912>>, <<3949, 3952>>,
      <<3992, 3992>>, <<4029, 4029>>, <<4045, 4045>>, <<4059, 4095>>, <<4294, 4294>>,
      <<4296, 4300>>, <<4302, 4303>>, <<4681, 4681>>, <<4686, 4687>>, <<4695, 4695>>,
      <<4697, 4697>>, <<4702, 4703>>, <<4745, 4745>>, <<4750, 4751>>, <<4785, 4785>>,
      <<4790, 4791>>, <<4799, 4799>>, <<4801, 4801>>, <<4806, 4807>>, <<4823, 4823>>,
      <<4881, 4881>>, <<4886, 4887>>, <<4955, 4956>>, <<4989, 4991>>, <<5018, 5023>>,
      <<5110, 5111>>, <<5118, 5119>>, <<5760, 5760>>, <<5789, 5791>>, <<5881, 5887>>,
      <<5910, 5918>>, <<5943, 5951>>, <<5972, 5983>>, <<5997, 5997>>, <<6001, 6001>>,
      <<6004, 6015>>, <<6110, 6111>>, <<6122, 6127>>, <<6138, 6143>>, <<6158, 6158>>,
      <<6170, 6175>>, <<6265, 6271>>, <<6315, 6319>>, <<6390, 6399>>, <<6431, 6431>>,
      <<6444, 6447>>, <<6460, 6463>>, <<6465, 6467>>, <<6510, 6511>>, <<6517, 6527>>,
      <<6572, 6575>>, <<6602, 6607>>, <<6619, 6621>>, <<6684, 6685>>, <<6751, 6751>>,
      <<6781, 6782>>, <<6794, 6799>>, <<6810, 6815>>, <<6830, 6831>>, <<6863, 6911>>,
      <<6989, 6991>>, <<7039, 7039>>, <<7156, 7163>>, <<7224, 7226>>, <<7242, 7244>>,
      <<7305, 7311>>, <<7355, 7356>>, <<7368, 7375>>, <<7419, 7423>>, <<7958, 7959>>,
      <<7966, 7967>>, <<8006, 8007>>, <<8014, 8015>>, <<8024, 8024>>, <<8026, 8026>>,
      <<8028, 8028>>, <<8030, 8030>>, <<8062, 8063>>, <<8117, 8117>>, <<8133, 8133>>,
      <<8148, 8149>>, <<8156, 8156>>, <<8176, 8177>>, <<8181, 8181>>, <<8191, 8207>>,
      <<8232, 8239>>, <<8287, 8303>>, <<8306, 8307>>, <<8335, 8335>>, <<8349, 8351>>,
      <<8385, 8399>>, <<8433, 8447>>, <<8588, 8591>>, <<9255, 9279>>, <<9291, 9311>>,
      <<11124, 11125>>, <<11158, 11158>>, <<11508, 11512>>, <<11558, 11558>>, <<11560, 11564>>,
      <<11566, 11567>>, <<11624, 11630>>, <<11633, 11646>>, <<11671, 11679>>, <<11687, 11687>>,
      <<11695, 11695>>, <<11703, 11703>>, <<11711, 11711>>, <<11719, 11719>>, <<11727, 11727>>,
      <<11735, 11735>>, <<11743, 11743>>, <<11870, 11903>>, <<11930, 11930>>, <<12020, 12031>>,
      <<12246, 12271>>, <<12284, 12288>>, <<12352, 12352>>, <<12439, 12440>>, <<12544, 12548>>,
      <<12592, 12592>>, <<12687, 12687>>, <<12772, 12783>>, <<12831, 12831>>, <<42125, 42127>>,
      <<42183, 42191>>, <<42540, 42559>>, <<42744, 42751>>, <<42955, 42959>>, <<42962, 42962>>,
      <<42964, 42964>>, <<42970, 42993>>, <<43053, 43055>>, <<43066, 43071>>, <<43128, 43135>>,
      <<43206, 43213>>, <<43226, 43231>>, <<43348, 43358>>, <<43389, 43391>>, <<43470, 43470>>,
      <<43482, 43485>>, <<43519, 43519>>, <<43575, 43583>>, <<43598, 43599>>, <<43610, 43611>>,
      <<43715, 43738>>, <<43767, 43776>>, <<43783, 43784>>, <<43791, 43792>>, <<43799, 43807>>,
      <<43815, 43815>>, <<43823, 43823>>, <<43884, 43887>>, <<44014, 44015>>, <<44026, 44031>>,
      <<55204, 55215>>, <<55239, 55242>>, <<55292, 63743>>, <<64110, 64111>>, <<64218, 64255>>,
      <<64263, 64274>>, <<64280, 64284>>, <<64311, 64311>>, <<64317, 64317>>, <<64319, 64319>>,
      <<64322, 64322>>, <<64325, 64325>>, <<64451, 64466>>, <<64912, 64913>>, <<64968, 64974>>,
      <<64976, 65007>>, <<65050, 65055>>, <<65107, 65107>>, <<65127, 65127>>, <<65132, 65135>>,
      <<65141, 65141>>, <<65277, 65280>>, <<65471, 65473>>, <<65480, 65481>>, <<65488, 65489>>,
      <<65496, 65497>>, <<65501, 65503>>, <<65511, 65511>>, <<65519, 65531>>, <<65534, 65535>>,
      <<65548, 65548>>, <<65575, 65575>>, <<65595, 65595>>, <<65598, 65598>>, <<65614, 65615>>,
      <<65630, 65663>>, <<65787, 65791>>, <<65795, 65798>>, <<65844, 65846>>, <<65935, 65935>>,
      <<65949, 65951>>, <<65953, 65999>>, <<66046, 66175>>, <<66205, 66207>>, <<66257, 66271>>,
      <<66300, 66303>>, <<66340, 66348>>, <<66379, 66383>>, <<66427, 66431>>, <<66462, 66462>>,
      <<66500, 66503>>, <<66518, 66559>>, <<66718, 66719>>, <<66730, 66735>>, <<66772, 66775>>,
      <<66812, 66815>>, <<66856, 66863>>, <<66916, 66926>>, <<66939, 66939>>, <<66955, 66955>>,
      <<66963, 66963>>, <<66966, 66966>>, <<66978, 66978>>, <<66994, 66994>>, <<67002, 67002>>,
      <<67005, 67071>>, <<67383, 67391>>, <<67414, 67423>>, <<67432, 67455>>, <<67462, 67462>>,
      <<67505, 67505>>, <<67515, 67583>>, <<67590, 67591>>, <<67593, 67593>>, <<67638, 67638>>,
      <<67641, 67643>>, <<67645, 67646>>, <<67670, 67670>>, <<67743, 67750>>, <<67760, 67807>>,
      <<67827, 67827>>, <<67830, 67834>>, <<67868, 67870>>, <<67898, 67902>>, <<67904, 67967>>,
      <<68024, 68027>>, <<68048, 68049>>, <<68100, 68100>>, <<68103, 68107>>, <<68116, 68116>>,
      <<68120, 68120>>, <<68150, 68151>>, <<68155, 68158>>, <<68169, 68175>>, <<68185, 68191>>,
      <<68256, 68287>>, <<68327, 68330>>, <<68343, 68351>>, <<68406, 68408>>, <<68438, 68439>>,
      <<68467, 68471>>, <<68498, 68504>>, <<68509, 68520>>, <<68528, 68607>>, <<68681, 68735>>,
      <<68787, 68799>>, <<68851, 68857>>, <<68904, 68911>>, <<68922, 69215>>, <<69247, 69247>>,
      <<69290, 69290>>, <<69294, 69295>>, <<69298, 69375>>, <<69416, 69423>>, <<69466, 69487>>,
      <<69514, 69551>>, <<69580, 69599>>, <<69623, 69631>>, <<69710, 69713>>, <<69750, 69758>>,
      <<69821, 69821>>, <<69827, 69839>>, <<69865, 69871>>, <<69882, 69887>>, <<69941, 69941>>,
      <<69960, 69967>>, <<70007, 70015>>, <<70112, 70112>>, <<70133, 70143>>, <<70162, 70162>>,
      <<70207, 70271>>, <<70279, 70279>>, <<70281, 70281>>, <<70286, 70286>>, <<70302, 70302>>,
      <<70314, 70319>>, <<70379, 70383>>, <<70394, 70399>>, <<70404, 70404>>, <<70413, 70414>>,
      <<70417, 70418>>, <<70441, 70441>>, <<70449, 70449>>, <<70452, 70452>>, <<70458, 70458>>,
      <<70469, 70470>>, <<70473, 70474>>, <<70478, 70479>>, <<70481, 70486>>, <<70488, 70492>>,
      <<70500, 70501>>, <<70509, 70511>>, <<70517, 70655>>, <<70748, 70748>>, <<70754, 70783>>,
      <<70856, 70863>>, <<70874, 71039>>, <<71094, 71095>>, <<71134, 71167>>, <<71237, 71247>>,
      <<71258, 71263>>, <<71277, 71295>>, <<71354, 71359>>, <<71370, 71423>>, <<71451, 71452>>,
      <<71468, 71471>>, <<71495, 71679>>, <<71740, 71839>>, <<71923, 71934>>, <<71943, 71944>>,
      <<71946, 71947>>, <<71956, 71956>>, <<71959, 71959>>, <<71990, 71990>>, <<71993, 71994>>,
      <<72007, 72015>>, <<72026, 72095>>, <<72104, 72105>>, <<72152, 72153>>, <<72165, 72191>>,
      <<72264, 72271>>, <<72355, 72367>>, <<72441, 72703>>, <<72713, 72713>>, <<72759, 72759>>,
      <<72774, 72783>>, <<72813, 72815>>, <<72848, 72849>>, <<72872, 72872>>, <<72887, 72959>>,
      <<72967, 72967>>, <<72970, 72970>>, <<73015, 73017>>, <<73019, 73019>>, <<73022, 73022>>,
      <<73032, 73039>>, <<73050, 73055>>, <<73062, 73062>>, <<73065, 73065>>, <<73103, 73103>>,
      <<73106, 73106>>, <<73113, 73119>>, <<73130, 73439>>, <<73465, 73647>>, <<73649, 73663>>,
      <<73714, 73726>>, <<74650, 74751>>, <<74863, 74863>>, <<74869, 74879>>, <<75076, 77711>>,
      <<77811, 77823>>, <<78895, 82943>>, <<83527, 92159>>, <<92729, 92735>>, <<92767, 92767>>,
      <<92778, 92781>>, <<92863, 92863>>, <<92874, 92879>>, <<92910, 92911>>, <<92918, 92927>>,
      <<92998, 93007>>, <<93018, 93018>>, <<93026, 93026>>, <<93048, 93052>>, <<93072, 93759>>,
      <<93851, 93951>>, <<94027, 94030>>, <<94088, 94094>>, <<94112, 94175>>, <<94181, 94191>>,
      <<94194, 94207>>, <<100344, 100351>>, <<101590, 101631>>, <<101641, 110575>>, <<110580, 110580>>,
      <<110588, 110588>>, <<110591, 110591>>, <<110883, 110927>>, <<110931, 110947>>, <<110952, 110959>>,
      <<111356, 113663>>, <<113771, 113775>>, <<113789, 113791>>, <<113801, 113807>>, <<113818, 113819>>,
      <<113824, 118527>>, <<118574, 118575>>, <<118599, 118607>>, <<118724, 118783>>, <<119030, 119039>>,
      <<119079, 119080>>, <<119155, 119162>>, <<119275, 119295>>, <<119366, 119519>>, <<119540, 119551>>,
      <<119639, 119647>>, <<119673, 119807>>, <<119893, 119893>>, <<119965, 119965>>, <<119968, 119969>>,
      <<119971, 119972>>, <<119975, 119976>>, <<119981, 119981>>, <<119994, 119994>>, <<119996, 119996>>,
      <<120004, 120004>>, <<120070, 120070>>, <<120075, 120076>>, <<120085, 120085>>, <<120093, 120093>>,
      <<120122, 120122>>, <<120127, 120127>>, <<120133, 120133>>, <<120135, 120137>>, <<120145, 120145>>,
      <<120486, 120487>>, <<120780, 120781>>, <<121484, 121498>>, <<121504, 121504>>, <<121520, 122623>>,
      <<122655, 122879>>, <<122887, 122887>>, <<122905, 122906>>, <<122914, 122914>>, <<122917, 122917>>,
      <<122923, 123135>>, <<123181, 123183>>, <<123198, 123199>>, <<123210, 123213>>, <<123216, 123535>>,
      <<123567, 123583>>, <<123642, 123646>>, <<123648, 124895>>, <<124903, 124903>>, <<124908, 124908>>,
      <<124911, 124911>>, <<124927, 124927>>, <<125125, 125126>>, <<125143, 125183>>, <<125260, 125263>>,
      <<125274, 125277>>, <<125280, 126064>>, <<126133, 126208>>, <<126270, 126463>>, <<126468, 126468>>,
      <<126496, 126496>>, <<126499, 126499>>, <<126501, 126502>>, <<126504, 126504>>, <<126515, 126515>>,
      <<126520, 126520>>, <<126522, 126522>>, <<126524, 126529>>, <<126531, 126534>>, <<126536, 126536>>,
      <<126538, 126538>>, <<126540, 126540>>, <<126544, 126544>>, <<126547, 126547>>, <<126549, 126550>>,
      <<126552, 126552>>, <<126554, 126554>>, <<126556, 126556>>, <<126558, 126558>>, <<126560, 126560>>,
      <<126563, 126563>>, <<126565, 126566>>, <<126571, 126571>>, <<126579, 126579>>, <<126584, 126584>>,
      <<126589, 126589>>, <<126591, 126591>>, <<126602, 126602>>, <<126620, 126624>>, <<126628, 126628>>,
      <<126634, 126634>>, <<126652, 126703>>, <<126706, 126975>>, <<127020, 127023>>, <<127124, 127135>>,
      <<127151, 127152>>, <<127168, 127168>>, <<127184, 127184>>, <<127222, 127231>>, <<127406, 127461>>,
      <<127491, 127503>>, <<127548, 127551>>, <<127561, 127567>>, <<127570, 127583>>, <<127590, 127743>>,
      <<128728, 128732>>, <<128749, 128751>>, <<128765, 128767>>, <<128884, 128895>>, <<128985, 128991>>,
      <<129004, 129007>>, <<129009, 129023>>, <<129036, 129039>>, <<129096, 129103>>, <<129114, 129119>>,
      <<129160, 129167>>, <<129198, 129199>>, <<129202, 129279>>, <<129620, 129631>>, <<129646, 129647>>,
      <<129653, 129655>>, <<129661, 129663>>, <<129671, 129679>>, <<129709, 129711>>, <<129723, 129727>>,
      <<129734, 129743>>, <<129754, 129759>>, <<129768, 129775>>, <<129783, 129791>>, <<129939, 129939>>,
      <<129995, 130031>>, <<130042, 131071>>, <<173792, 173823>>, <<177977, 177983>>, <<178206, 178207>>,
      <<183970, 183983>>, <<191457, 194559>>, <<195102, 196607>>, <<201547, 917759>>, <<918000, 1114111>> }

IsPrintable(c) ==
    IF c < 128 THEN c >= 32 /\ c < 127
    ELSE ~(\E r \in NonPrintableRanges : c >= r[1] /\ c <= r[2])

\* A printable character outside ASCII, as a TLA+ string holds it.
RawChar(c) == "<U+" \o Hex(c, IF c < 65536 THEN 4 ELSE IF c < 1048576 THEN 5 ELSE 6) \o ">"

\* repr() of a str: double quotes when the text holds ' and no ", single
\* quotes otherwise.
ReprQuote(cs) ==
    IF (\E i \in 1..Len(cs) : cs[i] = Ord("'")) /\ ~(\E i \in 1..Len(cs) : cs[i] = Ord("\""))
    THEN Ord("\"") ELSE Ord("'")

\* The quote in use and the backslash get a backslash; \t, \n, \r their
\* letter; what is not printable \xNN, \uNNNN or \UNNNNNNNN.
ReprChar(c, quote) ==
    IF c = quote \/ c = Ord("\\") THEN "\\" \o Chr(c)
    ELSE IF c = 9 THEN "\\t"
    ELSE IF c = 10 THEN "\\n"
    ELSE IF c = 13 THEN "\\r"
    ELSE IF c < 32 \/ c = 127 THEN "\\x" \o Hex(c, 2)
    ELSE IF c < 127 THEN Chr(c)
    ELSE IF IsPrintable(c) THEN RawChar(c)
    ELSE IF c <= 255 THEN "\\x" \o Hex(c, 2)
    ELSE IF c <= 65535 THEN "\\u" \o Hex(c, 4)
    ELSE "\\U" \o Hex(c, 8)

RECURSIVE ReprChars(_, _)
ReprChars(cs, quote) ==
    IF cs = << >> THEN ""
    ELSE ReprChar(Head(cs), quote) \o ReprChars(Tail(cs), quote)

Repr(cs) == Chr(ReprQuote(cs)) \o ReprChars(cs, ReprQuote(cs)) \o Chr(ReprQuote(cs))

\* api.py:186-187; str(KeyError(k)) is repr(k).
ErrorDetail(e) == "Error processing request: " \o e
KeyErrorStr(k) == Repr(IdChars[k])
HTTPException(code, detail) == [status |-> code, detail |-> detail]

\* api.py:148-160, then the adapter up to its first suspension
\* (hr_agent_claude_sdk.py:184-185 and, traced, 209-228, which raise nothing
\* under the tracing outcomes of ApiTraces).
ChatStart(session_id, message) ==
    /\ Len(chats) < MaxChats
    /\ LET api_session_id == ApiSessionId(session_id, Uuid(nuuid + 1))
           sdk_session_id == SdkSessionId(session_id)
           actual_session_id ==
               ActualSessionId(sdk_session_id, Uuid(nuuid + UuidsDrawn(session_id)))
       IN  /\ sessions' = AppendMessage(GetOrCreate(sessions, api_session_id),
                                        api_session_id, Entry("user", message))
           /\ chats' = Append(chats,
                  [session_id |-> session_id,
                   message |-> message,
                   api_session_id |-> api_session_id,
                   sdk_session_id |-> sdk_session_id,
                   actual_session_id |-> actual_session_id,
                   pc |-> "awaiting",
                   exchange_error |-> None,
                   response |-> [status |-> 0]])
    /\ nuuid' = nuuid + UuidsDrawn(session_id)
    /\ UNCHANGED <<sdk_session_map, last, deleted, call>>

\* api.py:170-184 after a result, api.py:186-187 after any exception.
ChatResume(r, stream, trace) ==
    /\ r \in 1..Len(chats)
    /\ chats[r].pc = "awaiting"
    /\ LET c == chats[r]
           id == c.api_session_id
           result == GetClaudeAgentResponse(c.message, c.sdk_session_id,
                                            c.actual_session_id, stream, trace)
           finish(resp) ==
               [chats EXCEPT ![r].pc = "done",
                             ![r].exchange_error = stream.error,
                             ![r].response = resp]
       IN  IF ~result.ok
           THEN /\ chats' = finish(HTTPException(500, ErrorDetail(result.error)))
                /\ UNCHANGED <<sessions, sdk_session_map>>
           ELSE LET appended == AppendResult(sessions, id,
                                             Entry("assistant", result.content))
                IN  /\ sdk_session_map' = SetItem(sdk_session_map, id, result.session_id)
                    /\ sessions' = appended.sessions
                    /\ chats' = finish(IF appended.raised
                                       THEN HTTPException(500, ErrorDetail(KeyErrorStr(id)))
                                       ELSE ChatResponse(result))
    /\ UNCHANGED <<nuuid, last, deleted, call>>

(***************************************************************************)
(* GET /sessions/{id}, DELETE /sessions/{id}, GET /sessions                *)
(***************************************************************************)
\* api.py:204-209
SessionResponse(id) ==
    [op |-> "get", id |-> id, status |-> 200,
     sdk_session_id |-> DictGet(sdk_session_map, id),
     conversation_history |-> sessions[id],
     message_count |-> Len(sessions[id])]

NotFound(op, id) == [op |-> op, id |-> id, status |-> 404]

\* Mutant: the history is looked up with setdefault, so an unknown id is
\* answered 200 with an empty history that is now in the registry.
GetSessionSetDefault(id) ==
    /\ sessions' = IF id \in DOMAIN sessions THEN sessions ELSE (id :> << >>) @@ sessions
    /\ last' = [op |-> "get", id |-> id, status |-> 200,
                sdk_session_id |-> IF id \in DOMAIN sdk_session_map
                                   THEN sdk_session_map[id] ELSE None,
                conversation_history |-> IF id \in DOMAIN sessions THEN sessions[id] ELSE << >>,
                message_count |-> IF id \in DOMAIN sessions THEN Len(sessions[id]) ELSE 0]
    /\ UNCHANGED <<sdk_session_map, nuuid, chats, deleted, call>>

\* api.py:198-209
GetSession(id) ==
    /\ last' = IF id \notin DOMAIN sessions THEN NotFound("get", id)
               ELSE SessionResponse(id)
    /\ UNCHANGED <<sessions, sdk_session_map, nuuid, chats, deleted, call>>

\* api.py:220-231
DeleteSession(id) ==
    IF id \notin DOMAIN sessions
    THEN /\ last' = NotFound("delete", id)
         /\ UNCHANGED <<sessions, sdk_session_map, nuuid, chats, deleted, call>>
    ELSE /\ sessions' = DelItem(sessions, id)
         /\ sdk_session_map' = IF id \in DOMAIN sdk_session_map
                               THEN DelItem(sdk_session_map, id)
                               ELSE sdk_session_map
         /\ last' = [op |-> "delete", id |-> id, status |-> 200,
                     sdk_session |-> DictGet(sdk_session_map, id)]
         /\ deleted' = deleted \cup {id}
         /\ UNCHANGED <<nuuid, chats, call>>

\* Mutant: the summary shows the first entry of the history.
SessionSummaryFirstMessage(sid) ==
    [api_session_id |-> sid,
     sdk_session_id |-> DictGet(sdk_session_map, sid),
     message_count |-> Len(sessions[sid]),
     last_message |-> IF sessions[sid] # << >> THEN sessions[sid][1] ELSE None]

\* api.py:239-247, one summary per conversation
SessionSummary(sid) ==
    [api_session_id |-> sid,
     sdk_session_id |-> DictGet(sdk_session_map, sid),
     message_count |-> Len(sessions[sid]),
     last_message |-> IF sessions[sid] # << >>
                      THEN sessions[sid][Len(sessions[sid])] ELSE None]

\* api.py:239-252
ListSessions ==
    /\ last' = [op |-> "list", status |-> 200,
                total_sessions |-> Cardinality(DOMAIN sessions),
                sessions |-> { SessionSummary(sid) : sid \in DOMAIN sessions }]
    /\ UNCHANGED <<sessions, sdk_session_map, nuuid, chats, deleted, call>>

(***************************************************************************)
(* The server                                                              *)
(***************************************************************************)
\* The exchanges and tracing outcomes the served requests are run against.
ApiStreams ==
    { [msgs |-> <<AssistantMessage(<<ToolUseBlock, TextBlock("y")>>),
                  UserMessage(<<ToolResultBlock>>),
                  AssistantMessage(<<TextBlock("x")>>),
                  ResultMessage("r1")>>,
       error |-> None],
      [msgs |-> << >>, error |-> "boom"] }

ApiTraces ==
    { [enabled |-> FALSE, faults |-> {}],
      [enabled |-> TRUE, faults |-> {}] }

RequestIds == {None, ""} \cup Visible

Next ==
    \/ \E session_id \in RequestIds, message \in Messages : ChatStart(session_id, message)
    \/ \E r \in 1..Len(chats), stream \in ApiStreams, trace \in ApiTraces :
           ChatResume(r, stream, trace)
    \/ \E id \in Visible : GetSession(id)
    \/ \E id \in Visible : DeleteSession(id)
    \/ ListSessions

Spec == Init /\ [][Next]_vars

(***************************************************************************)
(* The adapter on its own, over every stream and tracing outcome           *)
(***************************************************************************)
\* The calls started and not yet returned, oldest first.
PendingCalls == IF call = NoCall THEN << >> ELSE call.pending
StartedCalls == IF call = NoCall THEN 0 ELSE call.started

\* The stream of a call whose exchange never started: nothing was
\* delivered and nothing was raised by the runtime.
NoStream == [msgs |-> << >>, error |-> None]

\* The first step of the coroutine, up to its first suspension.  Lines
\* 184-185 fix the flag and the session id, uuid.uuid4() being called only
\* when session_id is falsy.  Untraced, the call then suspends at the
\* connect of line 354.  Traced, lines 209-228 run first: when
\* propagate_attributes or start_as_current_span raises, the handler of
\* lines 338-350 runs and the call has ended, no suspension in between;
\* otherwise it suspends at the connect of line 231.  The tracing outcome
\* holds for the whole call.
AdapterStart(message, session_id, trace) ==
    /\ StartedCalls < MaxChats
    /\ LET c == [message |-> message,
                 session_id |-> session_id,
                 actual_session_id |-> ActualSessionId(session_id, Uuid(nuuid + 1)),
                 trace |-> trace]
       IN  call' = IF EndsBeforeSuspension(trace)
                   THEN [pc |-> "returned",
                         started |-> StartedCalls + 1,
                         pending |-> PendingCalls,
                         message |-> c.message,
                         session_id |-> c.session_id,
                         actual_session_id |-> c.actual_session_id,
                         stream |-> NoStream,
                         trace |-> c.trace,
                         result |-> RaisedBeforeSuspension(c.trace)]
                   ELSE IF call.pc = "returned"
                   THEN [call EXCEPT !.started = @ + 1, !.pending = Append(@, c)]
                   ELSE [pc |-> "awaiting",
                         started |-> StartedCalls + 1,
                         pending |-> Append(PendingCalls, c)]
    /\ nuuid' = IF Falsy(session_id) THEN nuuid + 1 ELSE nuuid
    /\ UNCHANGED <<sessions, sdk_session_map, chats, last, deleted>>

\* A call in flight resumed to its end: the exchange (lines 231-330 traced,
\* 354-368 untraced) and the return or the raise.  call keeps the calls
\* still pending and describes this one.
AdapterReturn(i, stream) ==
    /\ i \in 1..Len(PendingCalls)
    /\ LET c == PendingCalls[i]
       IN  call' = [pc |-> "returned",
                    started |-> StartedCalls,
                    pending |-> SubSeq(PendingCalls, 1, i - 1)
                                \o SubSeq(PendingCalls, i + 1, Len(PendingCalls)),
                    message |-> c.message,
                    session_id |-> c.session_id,
                    actual_session_id |-> c.actual_session_id,
                    stream |-> stream,
                    trace |-> c.trace,
                    result |-> GetClaudeAgentResponse(c.message, c.session_id,
                                                      c.actual_session_id, stream, c.trace)]
    /\ UNCHANGED <<sessions, sdk_session_map, nuuid, chats, last, deleted>>

NextAdapter ==
    \/ \E message \in Messages, session_id \in {None, ""} \cup ClientIds, trace \in Traces :
           AdapterStart(message, session_id, trace)
    \/ \E i \in 1..Len(PendingCalls), stream \in Streams : AdapterReturn(i, stream)

SpecAdapter == Init /\ [][NextAdapter]_vars

(***************************************************************************)
(* The lookup tools on their own, one call on each argument dict           *)
(***************************************************************************)
CallGetAssignmentId(args) ==
    /\ call = NoCall
    /\ call' = [pc |-> "returned", fn |-> "get_assignment_id_hr_usecase",
                args |-> args, result |-> GetAssignmentIdHrUsecase(args)]
    /\ UNCHANGED <<sessions, sdk_session_map, nuuid, chats, last, deleted>>

CallGetTimeoffSchedule(args) ==
    /\ call = NoCall
    /\ call' = [pc |-> "returned", fn |-> "get_timeoff_schedule_hr_usecase",
                args |-> args, result |-> GetTimeoffScheduleHrUsecase(args)]
    /\ UNCHANGED <<sessions, sdk_session_map, nuuid, chats, last, deleted>>

NextTools ==
    \/ \E args \in ArgDicts({"username"}, Usernames) : CallGetAssignmentId(args)
    \/ \E assignment \in ArgDicts({"assignment_id"}, AssignmentIds),
          start \in ArgDicts({"start_date"}, DateTexts),
          end \in ArgDicts({"end_date"}, DateTexts) :
           CallGetTimeoffSchedule(assignment @@ start @@ end)

SpecTools == Init /\ [][NextTools]_vars

(***************************************************************************)
(* Vocabulary of the properties                                            *)
(***************************************************************************)
ChatIds == 1..Len(chats)
Succeeded(r) == chats[r].pc = "done" /\ chats[r].response.status = 200
ChatsOn(id) == { r \in ChatIds : chats[r].api_session_id = id }
History(id) == IF id \in DOMAIN sessions THEN sessions[id] ELSE << >>
UserCount(h, m) == Cardinality({ i \in 1..Len(h) : h[i] = Entry("user", m) })

\* The step is the arrival of a chat request / the answer to a get, delete or
\* list request (a request answered exactly as the previous one changes nothing).
ChatArrives == Len(chats') = Len(chats) + 1
Arrived == chats'[Len(chats')]
Answered(op) == last' # last /\ last'.op = op

\* The pair <<user message, assistant reply>> of request r sits in h at i, i+1.
ExchangeAt(h, i, r) ==
    /\ i + 1 <= Len(h)
    /\ h[i] = Entry("user", chats[r].message)
    /\ h[i + 1] = Entry("assistant", chats[r].response.content)

(***************************************************************************)
(* C1..C10                                                                 *)
(***************************************************************************)
\* C1: a follow-up chat whose session_id is the one returned by a first
\* successful chat sent without session_id reuses the first request's
\* conversation (none is created), and once the follow-up has succeeded that
\* conversation's history holds the follow-up's exchange after the first's.
C1_FollowUpReusesConversation ==
    \A r1, r2 \in ChatIds :
        ( /\ r1 < r2
          /\ chats[r1].session_id = None
          /\ Succeeded(r1)
          /\ chats[r2].session_id = chats[r1].response.session_id
          /\ chats[r1].api_session_id \notin deleted )
        => /\ chats[r2].api_session_id = chats[r1].api_session_id
           /\ Succeeded(r2) =>
                 \E i \in 3..Len(History(chats[r1].api_session_id)) :
                     ExchangeAt(History(chats[r1].api_session_id), i, r2)

\* C2: a chat request on a conversation that has a recorded runtime session
\* id hands that recorded id to the adapter.  (The claim also says that none
\* is handed over when none is recorded; this is its first half.)
C2_AdapterGetsRecordedId ==
    [][ (ChatArrives /\ Arrived.api_session_id \in DOMAIN sdk_session_map)
        => Arrived.sdk_session_id = sdk_session_map[Arrived.api_session_id] ]_vars

\* C3: a get-session request on the session_id returned by a successful chat,
\* whose conversation was not deleted, is answered 200 with a history that
\* holds that exchange's user message and assistant reply.
C3_GetReturnedSessionId ==
    [][ \A r \in ChatIds :
          ( /\ Succeeded(r)
            /\ chats[r].api_session_id \notin deleted
            /\ Answered("get")
            /\ last'.id = chats[r].response.session_id )
          => /\ last'.status = 200
             /\ \E i \in 1..Len(last'.conversation_history) :
                    ExchangeAt(last'.conversation_history, i, r) ]_vars

\* C4: when every chat request on a conversation id that was never deleted
\* has succeeded, the history has two entries per request and holds each
\* user message once per request that sent it, whatever the interleaving.
C4_NoLostUserMessages ==
    \A id \in { chats[r].api_session_id : r \in ChatIds } :
        (id \notin deleted /\ \A r \in ChatsOn(id) : Succeeded(r))
        => /\ id \in DOMAIN sessions
           /\ Len(sessions[id]) = 2 * Cardinality(ChatsOn(id))
           /\ \A m \in Messages :
                  UserCount(sessions[id], m) =
                      Cardinality({ r \in ChatsOn(id) : chats[r].message = m })

\* Two requests on one new id were in flight together (both user messages
\* precede both replies), with different messages, and both have succeeded.
C4_Witness ==
    \E id \in ClientIds :
        /\ id \notin deleted
        /\ Cardinality(ChatsOn(id)) = 2
        /\ \A r \in ChatsOn(id) : Succeeded(r)
        /\ \E r, q \in ChatsOn(id) : chats[r].message # chats[q].message
        /\ Len(History(id)) = 4
        /\ History(id)[2].role = "user"

\* C5: exchanges on one conversation are serialized: the reply of every
\* successful request on a conversation that was never deleted immediately
\* follows that request's user message in the history.
C5_ExchangesNotInterleaved ==
    \A r \in ChatIds :
        (Succeeded(r) /\ chats[r].api_session_id \notin deleted)
        => \E i \in 1..Len(History(chats[r].api_session_id)) :
               ExchangeAt(History(chats[r].api_session_id), i, r)

\* C6: a successful delete(id) removes id, and from then until a later chat
\* request names id the conversation stays absent, every get(id) is answered
\* NotFound and no list() shows id; the resumption of a chat request on id
\* that was suspended in its exchange when id was deleted is no exception.
C6_DeletedStaysAbsent ==
    [][ \A id \in Visible :
          /\ (Answered("delete") /\ last'.id = id /\ last'.status = 200)
                => id \notin DOMAIN sessions'
          /\ ( /\ id \in deleted
               /\ id \notin DOMAIN sessions
               /\ ~(ChatArrives /\ Arrived.session_id = id) )
                => /\ id \notin DOMAIN sessions'
                   /\ (Answered("get") /\ last'.id = id) => last'.status = 404
                   /\ Answered("list") =>
                          \A e \in last'.sessions : e.api_session_id # id ]_vars

\* A chat request on id resumed after id was deleted (it ended in the
\* KeyError response), id is still absent and the latest get(id) said 404.
C6_Witness ==
    \E r \in ChatIds :
        /\ chats[r].api_session_id \in deleted
        /\ chats[r].api_session_id \notin DOMAIN sessions
        /\ chats[r].pc = "done"
        /\ chats[r].response =
               HTTPException(500, ErrorDetail(KeyErrorStr(chats[r].api_session_id)))
        /\ last = NotFound("get", chats[r].api_session_id)

\* C7: get and delete on an id that is not in the registry are answered 404
\* and leave sessions and sdk_session_map as they were; get on a known id is
\* answered with the whole history, the recorded runtime id (or none) and
\* message_count = the history's length, and changes nothing either.
C7_GetDeleteContract ==
    [][ /\ Answered("get") =>
              /\ UNCHANGED <<sessions, sdk_session_map>>
              /\ IF last'.id \notin DOMAIN sessions
                 THEN last'.status = 404
                 ELSE /\ last'.status = 200
                      /\ last'.conversation_history = sessions[last'.id]
                      /\ last'.message_count = Len(sessions[last'.id])
                      /\ last'.sdk_session_id =
                             (IF last'.id \in DOMAIN sdk_session_map
                              THEN sdk_session_map[last'.id] ELSE None)
        /\ (Answered("delete") /\ last'.id \notin DOMAIN sessions) =>
              /\ last'.status = 404
              /\ UNCHANGED <<sessions, sdk_session_map>> ]_vars

\* The latest request was a get on a conversation with a recorded runtime id
\* and a two-entry history, answered 200, while another id is unknown.
C7_Witness ==
    /\ last.op = "get"
    /\ last.status = 200
    /\ last.message_count = 2
    /\ last.sdk_session_id # None
    /\ \E id \in Visible : id \notin DOMAIN sessions

\* C8: a chat request whose exchange raised ends in a 500 carrying the
\* failure description, and a chat request whose exchange succeeded ends in
\* a success response.
C8_ExchangeOutcomeDecidesResponse ==
    \A r \in ChatIds :
        chats[r].pc = "done" =>
            IF chats[r].exchange_error # None
            THEN chats[r].response =
                     HTTPException(500, ErrorDetail(chats[r].exchange_error))
            ELSE chats[r].response.status = 200

\* The session id of the terminal result message of a stream.
TerminalSessionId(msgs) == msgs[Len(msgs)].session_id

\* C9: the session id in the adapter's result is the one carried by the
\* terminal result message of the stream, whatever session id was supplied.
C9_ResultCarriesTerminalSessionId ==
    (call.pc = "returned" /\ call.result.ok)
    => call.result.session_id = TerminalSessionId(call.stream.msgs)

\* C10: the is_new_session flag of every chat response is true exactly when
\* the request supplied no session_id.
C10_IsNewSessionIffNoSessionId ==
    \A r \in ChatIds :
        Succeeded(r) =>
            (chats[r].response.is_new_session <=> chats[r].session_id = None)

\* Flags of both values were returned: true for a request without session_id,
\* false for one with the empty session_id and for one that named, and so
\* created, a conversation that did not exist.
C10_Witness ==
    /\ Len(chats) >= 2
    /\ Succeeded(1) /\ Succeeded(2)
    /\ chats[1].session_id \in ClientIds \cup {""}
    /\ ~chats[1].response.is_new_session
    /\ chats[2].session_id = None
    /\ chats[2].response.is_new_session

(***************************************************************************)
(* C11..C20                                                                *)
(***************************************************************************)
\* The text fragments a stream carries in assistant-authored messages, in
\* arrival order, and the concatenation of a sequence of fragments.
RECURSIVE TextFragments(_)
TextFragments(msgs) ==
    IF msgs = << >> THEN << >>
    ELSE LET m == Head(msgs)
             texts == SelectSeq(m.content, LAMBDA b : b.type = "text")
         IN  (IF m.type = "assistant"
              THEN [i \in 1..Len(texts) |-> texts[i].text] ELSE << >>)
             \o TextFragments(Tail(msgs))

RECURSIVE Concatenation(_)
Concatenation(fragments) ==
    IF fragments = << >> THEN ""
    ELSE Concatenation(SubSeq(fragments, 1, Len(fragments) - 1))
         \o fragments[Len(fragments)]

\* C11: the response text of a returned adapter call is the concatenation,
\* in arrival order, of the text fragments of the assistant messages; tool-use
\* blocks, tool-result messages and the result message add nothing.
C11_ResponseTextIsAssistantText ==
    (call.pc = "returned" /\ call.result.ok)
    => call.result.content = Concatenation(TextFragments(call.stream.msgs))

\* A returned call on a stream with a tool-result message, a tool-use block
\* and two text fragments in different messages.
C11_Witness ==
    /\ call.pc = "returned"
    /\ call.result.ok
    /\ Len(TextFragments(call.stream.msgs)) = 2
    /\ call.result.content = "yx"
    /\ \E i \in 1..Len(call.stream.msgs) :
           \E j \in 1..Len(call.stream.msgs[i].content) :
               call.stream.msgs[i].content[j].type = "tool_use"

\* C12: what a traced adapter call returns or raises is what it returns or
\* raises when no tracing operation fails (on the stream it received; on some
\* stream, when it ended before its exchange started).
C12_TraceFaultsChangeNothing ==
    (call.pc = "returned" /\ call.trace.enabled)
    => \E stream \in (IF call.stream = NoStream THEN Streams ELSE {call.stream}) :
           call.result = GetClaudeAgentResponse(call.message, call.session_id,
                                                call.actual_session_id,
                                                stream, [enabled |-> TRUE, faults |-> {}])

\* Ids drawn or stored before the step: every conversation id and every id
\* the api or the adapter has generated or been given.
IssuedBefore ==
    DOMAIN sessions
    \cup { chats[r].api_session_id : r \in ChatIds }
    \cup { chats[r].actual_session_id : r \in ChatIds }

IsPrefix(h, g) == Len(h) <= Len(g) /\ SubSeq(g, 1, Len(h)) = h

\* C13: a chat request without session_id creates its conversation under an
\* id that is not in the registry and was never issued before; a chat request
\* that names a conversation in the registry creates none and keeps every
\* entry of that conversation's history.
C13_FreshIdOrIdempotent ==
    [][ ChatArrives =>
          /\ Arrived.session_id = None =>
                /\ Arrived.api_session_id \notin IssuedBefore
                /\ Arrived.api_session_id \in DOMAIN sessions'
          /\ Arrived.session_id \in DOMAIN sessions =>
                /\ Arrived.api_session_id = Arrived.session_id
                /\ DOMAIN sessions' = DOMAIN sessions
                /\ IsPrefix(sessions[Arrived.session_id],
                            sessions'[Arrived.session_id]) ]_vars

\* A request without session_id created a conversation, and a second request
\* that named it was added to it behind the entries it already had.
C13_Witness ==
    /\ Len(chats) = 2
    /\ chats[1].session_id = None
    /\ chats[2].session_id = chats[1].api_session_id
    /\ DOMAIN sessions = {chats[1].api_session_id}
    /\ Len(sessions[chats[1].api_session_id]) = 3
    /\ sessions[chats[1].api_session_id][3] = Entry("user", chats[2].message)

\* C14: a chat request that supplies a session_id (any string, the empty one
\* included) that is not in the registry creates a conversation under exactly
\* that id.
C14_SuppliedIdIsUsed ==
    [][ (ChatArrives /\ Arrived.session_id # None
                     /\ Arrived.session_id \notin DOMAIN sessions)
        => /\ Arrived.api_session_id = Arrived.session_id
           /\ Arrived.session_id \in DOMAIN sessions' ]_vars

\* The step completes chat request r.
Completes(r) == chats[r].pc = "awaiting" /\ chats'[r].pc = "done"

\* C18: the append of the assistant message of a request whose conversation
\* was deleted during its exchange fails with NotFound, which the request
\* reports as a not-found response (404), and creates no conversation.
C18_AppendToUnknownIdFails ==
    [][ \A r \in ChatIds :
          ( /\ Completes(r)
            /\ chats'[r].exchange_error = None
            /\ chats[r].api_session_id \notin DOMAIN sessions )
          => /\ sessions' = sessions
             /\ chats'[r].response.status = 404 ]_vars

\* C19: every id with a recorded runtime session id has a conversation.
C19_RuntimeIdsHaveConversations ==
    DOMAIN sdk_session_map \subseteq DOMAIN sessions

\* C20: a chat request whose exchange fails leaves in the registry exactly its
\* user message: its arrival appends the user message to its conversation
\* (created when absent) and changes no other history and no recorded runtime
\* id, and its completion changes neither map.
C20_FailedExchangeLeavesUserMessage ==
    [][ /\ ChatArrives =>
              /\ DOMAIN sessions' = DOMAIN sessions \cup {Arrived.api_session_id}
              /\ sessions'[Arrived.api_session_id] =
                     Append(History(Arrived.api_session_id),
                            Entry("user", Arrived.message))
              /\ \A id \in DOMAIN sessions \ {Arrived.api_session_id} :
                     sessions'[id] = sessions[id]
              /\ sdk_session_map' = sdk_session_map
        /\ \A r \in ChatIds :
              (Completes(r) /\ chats'[r].exchange_error # None)
              => /\ UNCHANGED <<sessions, sdk_session_map>>
                 /\ chats'[r].response.status = 500 ]_vars

\* A request on a new conversation has failed: the conversation holds the
\* user message alone and has no recorded runtime id.
C20_Witness ==
    \E r \in ChatIds :
        /\ chats[r].pc = "done"
        /\ chats[r].exchange_error # None
        /\ chats[r].response.status = 500
        /\ chats[r].api_session_id \in DOMAIN sessions
        /\ sessions[chats[r].api_session_id] = <<Entry("user", chats[r].message)>>
        /\ chats[r].api_session_id \notin DOMAIN sdk_session_map

(***************************************************************************)
(* Lookup tools: C15..C17 (specification SpecTools)                        *)
(***************************************************************************)
\* A text in the pattern YYYY-MM-DD (four, two and two digits) that is a
\* date of the calendar.
IsYmdCalendarDate(text) ==
    LET cs == Chars[text]
    IN  /\ Len(cs) = 10
        /\ \A i \in {1, 2, 3, 4, 6, 7, 9, 10} : cs[i] >= 48 /\ cs[i] <= 57
        /\ cs[5] = 45 /\ cs[8] = 45
        /\ LET y == 1000 * (cs[1] - 48) + 100 * (cs[2] - 48) + 10 * (cs[3] - 48) + (cs[4] - 48)
               m == 10 * (cs[6] - 48) + (cs[7] - 48)
               d == 10 * (cs[9] - 48) + (cs[10] - 48)
           IN  y >= 1 /\ m >= 1 /\ m <= 12 /\ d >= 1
               /\ d <= (IF m = 2 THEN (IF y % 4 = 0 /\ (y % 100 # 0 \/ y % 400 = 0)
                                       THEN 29 ELSE 28)
                        ELSE IF m \in {4, 6, 9, 11} THEN 30 ELSE 31)

TimeoffReturned ==
    call # NoCall /\ call.fn = "get_timeoff_schedule_hr_usecase"
AssignmentReturned ==
    call # NoCall /\ call.fn = "get_assignment_id_hr_usecase"

\* The dates a timeoff call was given; a missing one is no date.
GivenDate(key) == IF key \in DOMAIN call.args THEN call.args[key] ELSE ""
BothDatesValid ==
    /\ "start_date" \in DOMAIN call.args /\ IsYmdCalendarDate(call.args.start_date)
    /\ "end_date" \in DOMAIN call.args /\ IsYmdCalendarDate(call.args.end_date)

ErrorFlagSet(result) == "is_error" \in DOMAIN result /\ result.is_error = TRUE

\* C15: the timeoff lookup, given a start_date and an end_date that are both
\* valid YYYY-MM-DD calendar dates, returns without the error flag one text
\* holding the list ["20250411", "20250311", "20250101"] for assignment id
\* 15338303, ["20250105"] for 15778303 and [] for every other id (a missing
\* one included), whatever the two valid dates are.
C15_TimeoffByAssignmentId ==
    (TimeoffReturned /\ BothDatesValid) =>
        /\ ~ErrorFlagSet(call.result)
        /\ Len(call.result.content) = 1
        /\ call.result.content[1].type = "text"
        /\ call.result.content[1].text =
              (IF "assignment_id" \notin DOMAIN call.args THEN "[]"
               ELSE IF call.args.assignment_id = "15338303"
                    THEN "[\"20250411\", \"20250311\", \"20250101\"]"
               ELSE IF call.args.assignment_id = "15778303"
                    THEN "[\"20250105\"]"
               ELSE "[]")

C15_Witness ==
    /\ TimeoffReturned /\ BothDatesValid
    /\ call.args.start_date # call.args.end_date
    /\ "assignment_id" \in DOMAIN call.args
    /\ call.args.assignment_id = "15338303"
    /\ call.result.content[1].text = "[\"20250411\", \"20250311\", \"20250101\"]"

\* C16: the timeoff lookup, given a start_date or an end_date that is
\* missing or is not a valid YYYY-MM-DD calendar date, returns a result with
\* the error flag set whose one text names the offending value and the
\* expected pattern and holds no date list: start_date's value when
\* start_date is invalid, end_date's value otherwise, whatever the
\* assignment id.
C16_InvalidDateIsFlagged ==
    (TimeoffReturned /\ ~BothDatesValid) =>
        /\ ErrorFlagSet(call.result)
        /\ Len(call.result.content) = 1
        /\ call.result.content[1].text =
              "Incorrect date format "
              \o (IF "start_date" \in DOMAIN call.args
                     /\ IsYmdCalendarDate(call.args.start_date)
                  THEN GivenDate("end_date") ELSE GivenDate("start_date"))
              \o ", should be YYYY-MM-DD"

\* C17: the assignment lookup returns the text 15778303 for username
\* nwaters, 15338303 for johndoe and "not found" for every other input, a
\* missing username included, and never sets the error flag.
C17_AssignmentByUsername ==
    AssignmentReturned =>
        /\ ~ErrorFlagSet(call.result)
        /\ Len(call.result.content) = 1
        /\ call.result.content[1].type = "text"
        /\ call.result.content[1].text =
              (IF "username" \notin DOMAIN call.args THEN "not found"
               ELSE IF call.args.username = "nwaters" THEN "15778303"
               ELSE IF call.args.username = "johndoe" THEN "15338303"
               ELSE "not found")

C17_Witness ==
    /\ AssignmentReturned
    /\ "username" \in DOMAIN call.args
    /\ call.args.username = "nwaters"
    /\ call.result.content[1].text = "15778303"

(***************************************************************************)
(* C21..C26                                                                *)
(***************************************************************************)
RoleCount(h, role) == Cardinality({ i \in 1..Len(h) : h[i].role = role })

\* C21: in every reachable state every conversation history is non-empty,
\* starts with a user message and holds no more assistant messages than user
\* messages.
C21_RepliesAnswerPresentMessages ==
    \A id \in DOMAIN sessions :
        /\ sessions[id] # << >>
        /\ sessions[id][1].role = "user"
        /\ RoleCount(sessions[id], "assistant") <= RoleCount(sessions[id], "user")

\* The step is the handling of a DELETE /sessions/{id} request (chat steps
\* change chats, get and list requests answer with their own op).
DeleteStep(id) == chats' = chats /\ last'.op = "delete" /\ last'.id = id

\* C22: a step other than a delete request on id keeps every conversation id
\* of the registry in the registry, with its history before the step a prefix
\* of its history after the step.
C22_OnlyDeleteRemoves ==
    [][\A id \in DOMAIN sessions :
          \/ DeleteStep(id)
          \/ id \in DOMAIN sessions' /\ IsPrefix(sessions[id], sessions'[id])]_vars

C22_Witness ==
    /\ "a" \in deleted
    /\ "a" \in DOMAIN sessions
    /\ Len(chats) = 2
    /\ chats[1].api_session_id = "a" /\ chats[2].api_session_id = "a"
    /\ chats[2].pc = "done" /\ chats[2].response.status = 200
    /\ Len(sessions["a"]) = 2

\* C23: the step that completes a chat request with a 200 response leaves the
\* runtime session id recorded for the request's conversation equal to the
\* session_id of that response, whatever was recorded before; so after
\* several chats on one conversation the recorded value is that of the one
\* that completed last.
C23_RecordedIdIsLastReturned ==
    [][\A r \in ChatIds :
          (Completes(r) /\ chats'[r].response.status = 200) =>
              /\ chats[r].api_session_id \in DOMAIN sdk_session_map'
              /\ sdk_session_map'[chats[r].api_session_id] = chats'[r].response.session_id]_vars

C23_Witness ==
    /\ Len(chats) = 2
    /\ Succeeded(1) /\ Succeeded(2)
    /\ chats[1].api_session_id = chats[2].api_session_id
    /\ chats[1].response.session_id # chats[2].response.session_id
    /\ chats[1].api_session_id \in DOMAIN sdk_session_map
    /\ sdk_session_map[chats[1].api_session_id] = chats[2].response.session_id

\* The conversation id a step of a chat or delete request works on.
StepTargets ==
    { Arrived.api_session_id : x \in { y \in {1} : ChatArrives } }
    \cup { chats[r].api_session_id : r \in { q \in ChatIds : Completes(q) } }
    \cup { last'.id : x \in { y \in {1} : chats' = chats /\ last'.op = "delete" } }

Recorded(map, id) == IF id \in DOMAIN map THEN <<map[id]>> ELSE << >>
Stored(reg, id) == IF id \in DOMAIN reg THEN <<reg[id]>> ELSE << >>

\* C24: every step of a chat or delete request on conversation A leaves the
\* history and the recorded runtime session id of every other conversation B
\* as they were (absent stays absent).
C24_OtherConversationsUntouched ==
    [][\A B \in DOMAIN sessions \cup DOMAIN sessions'
               \cup DOMAIN sdk_session_map \cup DOMAIN sdk_session_map' :
          B \notin StepTargets =>
              /\ Stored(sessions', B) = Stored(sessions, B)
              /\ Recorded(sdk_session_map', B) = Recorded(sdk_session_map, B)]_vars

C24_Witness ==
    /\ "a" \in deleted
    /\ "a" \notin DOMAIN sessions
    /\ Len(chats) = 2
    /\ chats[1].session_id = None /\ Succeeded(1)
    /\ chats[2].api_session_id = "a"
    /\ chats[1].api_session_id \in DOMAIN sessions
    /\ Len(sessions[chats[1].api_session_id]) = 2
    /\ chats[1].api_session_id \in DOMAIN sdk_session_map

\* C25: a list-sessions request changes neither the registry nor the
\* recorded runtime ids, and its answer describes the state it ran in:
\* total_sessions is the number of conversations and of summaries, there is
\* one summary per conversation, and each summary carries that
\* conversation's history length, its final entry and its recorded runtime
\* id (none when nothing is recorded).
C25_ListIsSnapshot ==
    [][Answered("list") =>
          /\ sessions' = sessions /\ sdk_session_map' = sdk_session_map
          /\ last'.total_sessions = Cardinality(DOMAIN sessions)
          /\ last'.total_sessions = Cardinality(last'.sessions)
          /\ { x.api_session_id : x \in last'.sessions } = DOMAIN sessions
          /\ \A x \in last'.sessions :
                LET h == sessions[x.api_session_id]
                IN  /\ x.message_count = Len(h)
                    /\ x.last_message = h[Len(h)]
                    /\ x.sdk_session_id =
                          (IF x.api_session_id \in DOMAIN sdk_session_map
                           THEN sdk_session_map[x.api_session_id] ELSE None)]_vars

C25_Witness ==
    /\ last.op = "list"
    /\ last.total_sessions = 2
    /\ Cardinality(DOMAIN sessions) = 2
    /\ \E r \in ChatIds : chats[r].pc = "awaiting"
    /\ \E x \in last.sessions :
          /\ x.message_count = 2
          /\ x.last_message.role = "assistant"
          /\ x.sdk_session_id # None
    /\ \E x \in last.sessions : x.sdk_session_id = None

Untraced == [enabled |-> FALSE, faults |-> {}]

\* C26: with tracing enabled and no tracing operation failing, the adapter
\* returns or raises exactly what it returns or raises with tracing
\* disabled on the same message, session id and message stream: the same
\* response text, is_new_session flag and session id, the same error.
C26_TracingIsTransparent ==
    (call.pc = "returned" /\ call.trace.enabled /\ call.trace.faults = {}) =>
        call.result = GetClaudeAgentResponse(call.message, call.session_id,
                                             call.actual_session_id, call.stream, Untraced)

\* A traced call without tracing fault returns the text of a stream holding
\* a tool-use block and a tool result, while another call is in flight.
C26_Witness ==
    /\ call.pc = "returned"
    /\ call.trace.enabled /\ call.trace.faults = {}
    /\ call.pending # << >>
    /\ call.result.ok
    /\ call.result.content = "y"
    /\ call.stream.msgs = <<AssistantMessage(<<ToolUseBlock, TextBlock("y")>>),
                            UserMessage(<<ToolResultBlock>>),
                            ResultMessage("r1")>>

====
